---- MODULE Spec2Model ----
(***************************************************************************)
(* Model of the document-preview server of index.js: the /preview handler, *)
(* its file cache (raw / pdf / html artifacts per key), the type detector  *)
(* and the conversion dispatch.                                            *)
(*                                                                         *)
(* Strings the code inspects character by character (the src URL, file     *)
(* extensions) are tuples of one-character strings.  A MIME type is a      *)
(* tuple of fragments whose concatenation is the MIME string, split so     *)
(* that the words the code searches for with includes() are fragments.     *)
(***************************************************************************)
EXTENDS Integers, Sequences, FiniteSets, TLC

(* ------------------------------ bounds --------------------------------- *)
NReq == 2
MaxTicks == 2
MaxLen == 2

(* -------------------------- program constants -------------------------- *)
MAX_FILE_SIZE == 200 * 1024 * 1024
CACHE_TIME == 86400 * 1000

(* ------------------------- character helpers --------------------------- *)
UpperToLower ==
  [c \in {"H", "T", "P", "S", "C", "V", "D", "O", "X"} |->
     CASE c = "H" -> "h" [] c = "T" -> "t" [] c = "P" -> "p"
       [] c = "S" -> "s" [] c = "C" -> "c" [] c = "V" -> "v"
       [] c = "D" -> "d" [] c = "O" -> "o" [] c = "X" -> "x"]

LowerChar(c) == IF c \in DOMAIN UpperToLower THEN UpperToLower[c] ELSE c

toLowerCase(s) == [i \in 1..Len(s) |-> LowerChar(s[i])]

StartsWith(s, p) == Len(s) >= Len(p) /\ SubSeq(s, 1, Len(p)) = p

\* the test without its anchor: http:// or https:// anywhere in src
IsHttpUrl_unanchored(chars) ==
  LET l == toLowerCase(chars) IN
    \E i \in 1..Len(l) :
      \/ StartsWith(SubSeq(l, i, Len(l)), <<"h", "t", "t", "p", ":", "/", "/">>)
      \/ StartsWith(SubSeq(l, i, Len(l)), <<"h", "t", "t", "p", "s", ":", "/", "/">>)

\* /^https?:\/\//i.test(src)
IsHttpUrl(chars) ==
  LET l == toLowerCase(chars) IN
    \/ StartsWith(l, <<"h", "t", "t", "p", ":", "/", "/">>)
    \/ StartsWith(l, <<"h", "t", "t", "p", "s", ":", "/", "/">>)

\* index of the last occurrence of c in s, 0 when there is none
LastIndexOf(s, c) ==
  LET hits == {i \in 1..Len(s) : s[i] = c} IN
    IF hits = {} THEN 0 ELSE CHOOSE i \in hits : \A j \in hits : j <= i

\* path.basename(p): the part after the last "/"
basename(p) == SubSeq(p, LastIndexOf(p, "/") + 1, Len(p))

\* path.extname(p): from the last "." of the basename to its end; empty when
\* the basename has no "." or only a leading one
extname(p) ==
  LET b == basename(p)
      d == LastIndexOf(b, ".")
  IN IF d <= 1 THEN <<>> ELSE SubSeq(b, d, Len(b))

(* ------------------------------ MIME types ----------------------------- *)
MimePdf == <<"application/pdf">>
MimeMsword == <<"application/msword">>
MimeDocx ==
  <<"application/vnd.openxmlformats-officedocument.wordprocessingml.document">>
MimeXlsx ==
  <<"application/vnd.openxmlformats-officedocument.", "spreadsheet", "ml.sheet">>
MimePptx ==
  <<"application/vnd.openxmlformats-officedocument.", "presentation", "ml.",
    "presentation">>
MimeCsv == <<"text/csv">>
MimeExe == <<"application/x-msdownload">>
MimeOctet == <<"application/octet-stream">>

\* mimeType.includes(word)
includes(m, word) == \E i \in 1..Len(m) : m[i] = word

\* mime.lookup(ext): extension -> MIME type table (case-insensitive), <<>>
\* standing for the value false of an unknown extension
lookup(ext) ==
  LET e == toLowerCase(ext) IN
    CASE e = <<".", "p", "d", "f">> -> MimePdf
      [] e = <<".", "d", "o", "c">> -> MimeMsword
      [] e = <<".", "d", "o", "t">> -> MimeMsword
      [] e = <<".", "d", "o", "c", "x">> -> MimeDocx
      [] e = <<".", "x", "l", "s", "x">> -> MimeXlsx
      [] e = <<".", "c", "s", "v">> -> MimeCsv
      [] OTHER -> <<>>

(* ------------------------------- inputs -------------------------------- *)
\* req.query.src: absent, or a string
SrcMissing == [present |-> FALSE, chars |-> <<>>]
SrcEmpty == [present |-> TRUE, chars |-> <<>>]
SrcNotPrefix ==
  [present |-> TRUE, chars |-> <<"x", "h", "t", "t", "p", ":", "/", "/", "a">>]
SrcOneSlash ==
  [present |-> TRUE, chars |-> <<"h", "t", "t", "p", "s", ":", "/", "a">>]
SrcCsvUpper ==
  [present |-> TRUE,
   chars |-> <<"H", "T", "T", "P", ":", "/", "/", "h", "/", "a", ".", "C", "S", "V">>]

InvalidSrcs == {SrcMissing, SrcEmpty, SrcNotPrefix, SrcOneSlash}
SrcDot ==
  [present |-> TRUE,
   chars |-> <<"h", "t", "t", "p", "s", ":", "/", "/", "h", "/", "b", ".", "d", "o", "t">>]

ValidSrcs == {SrcCsvUpper, SrcDot}
SrcInputs == InvalidSrcs \cup ValidSrcs

\* what the file-type library recognises in a payload: "none" for no known
\* signature
Sigs == {"none", "pdf", "docx", "wordml", "xlsx", "pptx", "exe"}

\* an upstream payload: its signature and its length in bytes
Payloads ==
  {[sig |-> s, size |-> 1] : s \in Sigs \ {"pdf"}}
    \cup {[sig |-> "pdf", size |-> MAX_FILE_SIZE],
          [sig |-> "pdf", size |-> MAX_FILE_SIZE + 1]}

NoPayload == [sig |-> "-", size |-> 0]

\* what the server behind a URL may answer with: anything behind the first
\* URL, a payload without signature behind the second
Upstream(url) ==
  IF url = SrcDot.chars THEN {p \in Payloads : p.sig = "none"} ELSE Payloads

(* --------------------------- pure functions ---------------------------- *)
\* hash(text): sha1 hex digest, taken as collision-free
hash(text) == <<"sha1">> \o text

Keys == {hash(s.chars) : s \in ValidSrcs}
Kinds == {"raw", "pdf", "html"}

NoDetection == [ext |-> <<>>, mime |-> <<>>]

\* fileTypeFromBuffer(buffer): {ext, mime} of a recognised signature, or
\* NoDetection (undefined)
fileTypeFromBuffer(buffer) ==
  CASE buffer.sig = "pdf" -> [ext |-> <<"p", "d", "f">>, mime |-> MimePdf]
    [] buffer.sig = "docx" -> [ext |-> <<"d", "o", "c", "x">>, mime |-> MimeDocx]
    [] buffer.sig = "wordml" -> [ext |-> <<"x", "m", "l">>, mime |-> MimeDocx]
    [] buffer.sig = "xlsx" -> [ext |-> <<"x", "l", "s", "x">>, mime |-> MimeXlsx]
    [] buffer.sig = "pptx" -> [ext |-> <<"p", "p", "t", "x">>, mime |-> MimePptx]
    [] buffer.sig = "exe" -> [ext |-> <<"e", "x", "e">>, mime |-> MimeExe]
    [] OTHER -> NoDetection

\* detect(buffer, fallbackName)
detect(buffer, fallbackName) ==
  LET ft == fileTypeFromBuffer(buffer) IN
    IF ft # NoDetection
      THEN [ext |-> <<".">> \o ft.ext, mime |-> ft.mime]
      ELSE LET ext == extname(fallbackName)
               m == lookup(ext)
           IN [ext |-> ext, mime |-> IF m # <<>> THEN m ELSE MimeOctet]

\* "application/vnd...wordprocessingml.document"[".odt"]?.includes(ext):
\* a string has no property ".odt", so the operand is undefined (<<>> here)
\* whatever ext is
WordMimeOperand(ext) == <<>>

IsPdfType(ext, mimeType) == mimeType = MimePdf \/ ext = <<".", "p", "d", "f">>

IsWordType(ext, mimeType) ==
  \/ ext = <<".", "d", "o", "c">>
  \/ ext = <<".", "d", "o", "c", "x">>
  \/ mimeType = MimeMsword
  \/ mimeType = WordMimeOperand(ext)

IsSheetType(ext, mimeType) ==
  \/ ext = <<".", "x", "l", "s", "x">>
  \/ ext = <<".", "x", "l", "s">>
  \/ includes(mimeType, "spreadsheet")

IsSlidesType(ext, mimeType) ==
  \/ ext = <<".", "p", "p", "t", "x">>
  \/ ext = <<".", "p", "p", "t">>
  \/ includes(mimeType, "presentation")

IsCsvType(ext, mimeType) == ext = <<".", "c", "s", "v">> \/ mimeType = MimeCsv

\* the if-chain with the spreadsheet test moved to the front
Branch_sheetFirst(ext, mimeType) ==
  IF IsSheetType(ext, mimeType) THEN "xls"
  ELSE IF IsPdfType(ext, mimeType) THEN "pdf"
  ELSE IF IsWordType(ext, mimeType) THEN "word"
  ELSE IF IsSlidesType(ext, mimeType) THEN "ppt"
  ELSE IF IsCsvType(ext, mimeType) THEN "csv"
  ELSE "generic"

\* the if-chain of the /preview handler: the first branch whose test holds
Branch(ext, mimeType) ==
  CASE IsPdfType(ext, mimeType) -> "pdf"
    [] ~IsPdfType(ext, mimeType) /\ IsWordType(ext, mimeType) -> "word"
    [] ~IsPdfType(ext, mimeType) /\ ~IsWordType(ext, mimeType)
         /\ IsSheetType(ext, mimeType) -> "xls"
    [] ~IsPdfType(ext, mimeType) /\ ~IsWordType(ext, mimeType)
         /\ ~IsSheetType(ext, mimeType) /\ IsSlidesType(ext, mimeType) -> "ppt"
    [] ~IsPdfType(ext, mimeType) /\ ~IsWordType(ext, mimeType)
         /\ ~IsSheetType(ext, mimeType) /\ ~IsSlidesType(ext, mimeType)
         /\ IsCsvType(ext, mimeType) -> "csv"
    [] OTHER -> "generic"

(* ------------------------------ the cache ------------------------------ *)
\* the content of a file: what it was made from (of) and by which
\* transformation (fmt): "raw" the fetched bytes, "pdf" the output of the
\* document-conversion engine, "sheet" the Luckysheet page, "table" the CSV
\* table
NoContent == [fmt |-> "-", of |-> NoPayload]
Bytes(buffer) == [fmt |-> "raw", of |-> buffer]
convertAsync(buffer) == [fmt |-> "pdf", of |-> buffer]
excelToLuckysheet(buffer) == [fmt |-> "sheet", of |-> buffer]
csvToHtml(buffer) == [fmt |-> "table", of |-> buffer]

NoFile == [exists |-> FALSE, content |-> NoContent, mtime |-> 0]

\* a write of the pdf or html artifact that replaces the whole entry: the
\* artifact of the other kind is removed
writeFile_entry(fs, key, kind, content, t) ==
  [fs EXCEPT ![key] =
     [k \in Kinds |->
        IF k = kind THEN [exists |-> TRUE, content |-> content, mtime |-> t]
        ELSE IF kind # "raw" /\ k # "raw" THEN NoFile
        ELSE @[k]]]

\* fs.writeFile(path, content) at time t
writeFile(fs, key, kind, content, t) ==
  [fs EXCEPT ![key][kind] = [exists |-> TRUE, content |-> content, mtime |-> t]]

\* the comparison of the age turned around
isCacheValid_inverted(f, t) == IF f.exists THEN t - f.mtime > CACHE_TIME ELSE FALSE

\* the comparison of the age with <= in place of <
isCacheValid_atMost(f, t) == IF f.exists THEN t - f.mtime <= CACHE_TIME ELSE FALSE

\* isCacheValid(filePath) at time t; fs.stat of an absent file throws
isCacheValid(f, t) == IF f.exists THEN t - f.mtime < CACHE_TIME ELSE FALSE

\* (await fs.pathExists(p)) && (await isCacheValid(p))
Fresh(f, t) == f.exists /\ isCacheValid(f, t)

(* ----------------------------- responses ------------------------------- *)
NoKey == <<>>
NoResponse ==
  [status |-> 0, page |-> "-", ref |-> NoKey, content |-> NoContent,
   name |-> <<>>, ext |-> <<>>]

TextResponse(st, msg) == [NoResponse EXCEPT !.status = st, !.page = msg]

\* res.type("html").send(createPdfViewerHtml(`/pdf/${key}`))
ViewerResponse(key) == [NoResponse EXCEPT !.status = 200, !.page = "viewer /pdf/", !.ref = key]

\* res.type("html").send(html)
HtmlResponse(content) == [NoResponse EXCEPT !.status = 200, !.page = "html", !.content = content]

\* createUnsupportedFileHtml(`/download/${key}`, filename, ext)
DownloadResponse(key, src, ext) ==
  [NoResponse EXCEPT !.status = 200, !.page = "unsupported /download/", !.ref = key,
                     !.name = IF basename(src) # <<>> THEN basename(src)
                              ELSE <<"f", "i", "l", "e">> \o ext,
                     !.ext = ext]

ServerError == TextResponse(500, "Server error: ")

(* ------------------------------- state --------------------------------- *)
VARIABLES
  now,     \* Date.now()
  ticks,   \* how many times the clock has advanced
  files,   \* the cache directory: files[key][kind]
  req,     \* the /preview requests: position in the handler and locals
  last,    \* the latest completed /preview call that went past the cache
           \* lookup: its key, its response, which of the pdf and html
           \* artifacts it wrote and whether it wrote the raw artifact
  engine,  \* how the converters behave on the upstream bytes: differently at
           \* each invocation, or the same way every time
  route,   \* the /pdf/:key or /download/:key request being served
  render   \* the latest page fragment built from untrusted text

vars == <<now, ticks, files, req, last, engine, route, render>>

\* what the /preview handler leaves alone
others == <<engine, route, render>>

Reqs == 1..NReq

NoCall == [valid |-> FALSE, key |-> NoKey, resp |-> NoResponse, gen |-> {}, raw |-> FALSE]

\* a request slot before its first request
IdleReq ==
  [pc |-> "idle", src |-> SrcMissing, key |-> NoKey, buffer |-> NoPayload,
   det |-> NoDetection, branch |-> "-", resp |-> NoResponse,
   fetches |-> 0, converts |-> 0, wrote |-> {}, failed |-> {}, hit |-> "-"]

ConverterPlaces == {"word", "xls", "xls_fallback", "ppt", "csv", "generic"}

\* convertAsync, LuckyExcel and the CSV parser are external: the outcome of a
\* conversion may differ from one invocation to the next (fixed = FALSE), or
\* be a function of the place of the call (fixed = TRUE, ok the places whose
\* conversion succeeds)
VaryingEngine == [fixed |-> FALSE, ok |-> {}]
MayResolve(place) == ~engine.fixed \/ place \in engine.ok
\* a conversion that may reject at any invocation
MayReject_anytime(place) == TRUE

MayReject(place) == ~engine.fixed \/ place \notin engine.ok

\* no /pdf or /download request yet
NoRouteResponse == [status |-> 0, body |-> NoContent, mime |-> <<>>, ext |-> <<>>]
NoRoute == [pc |-> "idle", path |-> "-", key |-> NoKey, resp |-> NoRouteResponse]

\* no page fragment yet
NoRender == [by |-> "-", out |-> <<>>]

\* the cache directory is empty and nothing has been requested
Start0 ==
  /\ now = 0
  /\ ticks = 0
  /\ files = [k \in Keys |-> [kind \in Kinds |-> NoFile]]
  /\ req = [r \in Reqs |-> IdleReq]
  /\ last = NoCall
  /\ route = NoRoute
  /\ render = NoRender

Init ==
  /\ Start0
  /\ engine = VaryingEngine

InFlight(r) == req[r].pc \notin {"idle", "done"}

\* the response is sent: request r, in state q, is over
Respond(r, q, resp) ==
  /\ req' = [req EXCEPT ![r] = [q EXCEPT !.pc = "done", !.resp = resp]]
  /\ last' = IF q.key = NoKey \/ q.hit # "-" THEN last
             ELSE [valid |-> TRUE, key |-> q.key, resp |-> resp,
                   gen |-> q.wrote \cap {"pdf", "html"}, raw |-> "raw" \in q.wrote]

(* --------------------------- the environment --------------------------- *)
Tick ==
  /\ ticks < MaxTicks
  /\ \E d \in {1, CACHE_TIME - 1} : now' = now + d
  /\ ticks' = ticks + 1
  /\ UNCHANGED <<others, files, req, last>>

(* ------------------------- GET /preview?src=... ------------------------ *)
\* a request arrives; validation of src
Start(r, s) ==
  /\ ~InFlight(r)
  /\ LET q0 == [IdleReq EXCEPT !.src = s] IN
       IF ~s.present \/ s.chars = <<>>
         THEN Respond(r, q0, TextResponse(400, "Missing src parameter"))
       ELSE IF ~IsHttpUrl(s.chars)
         THEN Respond(r, q0, TextResponse(400, "src must be an http(s) URL"))
       ELSE /\ req' = [req EXCEPT ![r] =
                         [q0 EXCEPT !.pc = "chk_html", !.key = hash(s.chars)]]
            /\ UNCHANGED last
  /\ UNCHANGED <<others, now, ticks, files>>

\* the lookup without the html artifact
CheckHtml_pdfOnly(r) ==
  /\ req[r].pc = "chk_html"
  /\ req' = [req EXCEPT ![r].pc = "chk_pdf"]
  /\ UNCHANGED <<others, now, ticks, files, last>>

\* (await fs.pathExists(cachedHtml)) && (await isCacheValid(cachedHtml))
CheckHtml(r) ==
  /\ req[r].pc = "chk_html"
  /\ req' = [req EXCEPT ![r].pc =
               IF Fresh(files[req[r].key]["html"], now) THEN "read_html" ELSE "chk_pdf"]
  /\ UNCHANGED <<others, now, ticks, files, last>>

\* res.type("html").send(await fs.readFile(cachedHtml, "utf8"))
ReadHtml(r) ==
  /\ req[r].pc = "read_html"
  /\ Respond(r, [req[r] EXCEPT !.hit = "html"],
             HtmlResponse(files[req[r].key]["html"].content))
  /\ UNCHANGED <<others, now, ticks, files>>

\* the lookup going on with the bytes of the raw artifact, when there is one,
\* in place of a fetch
CheckPdf_fromRaw(r) ==
  /\ req[r].pc = "chk_pdf"
  /\ IF Fresh(files[req[r].key]["pdf"], now)
       THEN Respond(r, [req[r] EXCEPT !.hit = "pdf"], ViewerResponse(req[r].key))
       ELSE /\ req' = [req EXCEPT ![r].pc = IF files[req[r].key]["raw"].exists
                                             THEN "detect" ELSE "fetch",
                                  ![r].buffer = files[req[r].key]["raw"].content.of]
            /\ UNCHANGED last
  /\ UNCHANGED <<others, now, ticks, files>>

\* (await fs.pathExists(cachedPdf)) && (await isCacheValid(cachedPdf))
CheckPdf(r) ==
  /\ req[r].pc = "chk_pdf"
  /\ IF Fresh(files[req[r].key]["pdf"], now)
       THEN Respond(r, [req[r] EXCEPT !.hit = "pdf"], ViewerResponse(req[r].key))
       ELSE req' = [req EXCEPT ![r].pc = "fetch"] /\ UNCHANGED last
  /\ UNCHANGED <<others, now, ticks, files>>

\* the outer catch: res.status(500).send("Server error: " + ...)
Fail(r, q) == Respond(r, q, ServerError)

\* the download without maxContentLength
FetchOk_nolimit(r, p) ==
  /\ req[r].pc = "fetch"
  /\ p \in Upstream(req[r].src.chars)
  /\ req' = [req EXCEPT ![r].pc = "write_raw", ![r].buffer = p,
                        ![r].fetches = @ + 1]
  /\ UNCHANGED <<others, now, ticks, files, last>>

\* downloadToBuffer(src): axios rejects on a network failure and on a body
\* longer than maxContentLength
FetchOk(r, p) ==
  /\ req[r].pc = "fetch"
  /\ p \in Upstream(req[r].src.chars)
  /\ p.size <= MAX_FILE_SIZE
  /\ req' = [req EXCEPT ![r].pc = "write_raw", ![r].buffer = p,
                        ![r].fetches = @ + 1]
  /\ UNCHANGED <<others, now, ticks, files, last>>

FetchFail(r, p, network) ==
  /\ req[r].pc = "fetch"
  /\ p \in Upstream(req[r].src.chars)
  /\ network \/ p.size > MAX_FILE_SIZE
  /\ Fail(r, [req[r] EXCEPT !.fetches = @ + 1,
                             !.failed = @ \cup {IF network THEN "fetch_network"
                                                ELSE "fetch_size"}])
  /\ UNCHANGED <<others, now, ticks, files>>

\* the handler without the write of the raw artifact
WriteRaw_skip(r) ==
  /\ req[r].pc = "write_raw"
  /\ req' = [req EXCEPT ![r].pc = "detect"]
  /\ UNCHANGED <<others, now, ticks, files, last>>

\* await fs.writeFile(cachedRaw, buffer)
WriteRaw(r) ==
  /\ req[r].pc = "write_raw"
  /\ files' = writeFile(files, req[r].key, "raw", Bytes(req[r].buffer), now)
  /\ req' = [req EXCEPT ![r].pc = "detect", ![r].wrote = @ \cup {"raw"}]
  /\ UNCHANGED <<others, now, ticks, last>>

\* const detection = ...; lower-casing of the extension, default of the MIME
\* type, choice of the branch
Dispatch(r, detection) ==
  /\ req[r].pc = "detect"
  /\ LET ext == toLowerCase(detection.ext)
         mimeType == IF detection.mime # <<>> THEN detection.mime ELSE MimeOctet
     IN req' = [req EXCEPT ![r].det = [ext |-> ext, mime |-> mimeType],
                           ![r].branch = Branch(ext, mimeType),
                           ![r].pc = Branch(ext, mimeType)]
  /\ UNCHANGED <<others, now, ticks, files, last>>

\* await detect(buffer, src)
Detect(r) == Dispatch(r, detect(req[r].buffer, req[r].src.chars))

\* the {ext, mime} a detector may hand to the dispatch: every pairing of an
\* extension with a MIME type (<<>> for a missing MIME type)
DetExts ==
  {<<>>, <<".", "p", "d", "f">>, <<".", "D", "O", "C">>, <<".", "d", "o", "c", "x">>,
   <<".", "x", "l", "s", "x">>, <<".", "x", "l", "s">>, <<".", "p", "p", "t", "x">>,
   <<".", "p", "p", "t">>, <<".", "c", "s", "v">>, <<".", "e", "x", "e">>}
DetMimes == {<<>>, MimePdf, MimeMsword, MimeDocx, MimeXlsx, MimePptx, MimeCsv, MimeExe}

DetectAny(r, ext, mimeType) == Dispatch(r, [ext |-> ext, mime |-> mimeType])

\* a write of the pdf or html artifact followed by the response
WriteAndRespond(r, kind, content, resp) ==
  /\ files' = writeFile(files, req[r].key, kind, content, now)
  /\ Respond(r, [req[r] EXCEPT !.wrote = @ \cup {kind}], resp)
  /\ UNCHANGED <<others, now, ticks>>

\* PDF: the fetched bytes are the pdf artifact
PdfBranch(r) ==
  /\ req[r].pc = "pdf"
  /\ WriteAndRespond(r, "pdf", Bytes(req[r].buffer), ViewerResponse(req[r].key))

\* await convertAsync(buffer, ".pdf", undefined) of the branch at position
\* place; on success the handler goes on to ok, a rejection is thrown
ConvertOk(r, place, ok) ==
  /\ req[r].pc = place
  /\ MayResolve(place)
  /\ req' = [req EXCEPT ![r].pc = ok, ![r].converts = @ + 1]
  /\ UNCHANGED <<others, now, ticks, files, last>>

ConvertThrow(r, place) ==
  /\ req[r].pc = place
  /\ MayReject(place)
  /\ Fail(r, [req[r] EXCEPT !.converts = @ + 1, !.failed = @ \cup {place}])
  /\ UNCHANGED <<others, now, ticks, files>>

\* await fs.writeFile(cachedPdf, pdfBuf) and the viewer page
PdfWrite(r, place) ==
  /\ req[r].pc = place
  /\ WriteAndRespond(r, "pdf", convertAsync(req[r].buffer), ViewerResponse(req[r].key))

\* DOC / DOCX
WordConvert(r) == ConvertOk(r, "word", "word_write") \/ ConvertThrow(r, "word")
WordWrite(r) == PdfWrite(r, "word_write")

\* the spreadsheet branch without its try/catch
XlsConvert_uncaught(r) == ConvertOk(r, "xls", "xls_write") \/ ConvertThrow(r, "xls")

\* XLSX / XLS: excelToLuckysheet, whose rejection is caught
XlsConvert(r) ==
  \/ ConvertOk(r, "xls", "xls_write")
  \/ /\ req[r].pc = "xls"
     /\ MayReject("xls")
     /\ req' = [req EXCEPT ![r].pc = "xls_fallback", ![r].converts = @ + 1,
                           ![r].failed = @ \cup {"xls"}]
     /\ UNCHANGED <<others, now, ticks, files, last>>

\* the html write inside the try block failing after the file is written: the
\* catch block runs
XlsWrite_fallthrough(r) ==
  /\ req[r].pc = "xls_write"
  /\ files' = writeFile(files, req[r].key, "html", excelToLuckysheet(req[r].buffer), now)
  /\ req' = [req EXCEPT ![r].pc = "xls_fallback", ![r].wrote = @ \cup {"html"}]
  /\ UNCHANGED <<others, now, ticks, last>>

XlsWrite(r) ==
  /\ req[r].pc = "xls_write"
  /\ WriteAndRespond(r, "html", excelToLuckysheet(req[r].buffer),
                     HtmlResponse(excelToLuckysheet(req[r].buffer)))

\* the catch block of the spreadsheet branch
XlsFallbackConvert(r) ==
  ConvertOk(r, "xls_fallback", "xls_fallback_write") \/ ConvertThrow(r, "xls_fallback")
XlsFallbackWrite(r) == PdfWrite(r, "xls_fallback_write")

\* the presentation branch with the try/catch of the generic fallback
PptConvert_caught(r) ==
  \/ ConvertOk(r, "ppt", "ppt_write")
  \/ /\ req[r].pc = "ppt"
     /\ Respond(r, [req[r] EXCEPT !.converts = @ + 1, !.failed = @ \cup {"ppt"}],
                DownloadResponse(req[r].key, req[r].src.chars, req[r].det.ext))
     /\ UNCHANGED <<others, now, ticks, files>>

\* PPTX / PPT
PptConvert(r) == ConvertOk(r, "ppt", "ppt_write") \/ ConvertThrow(r, "ppt")
PptWrite(r) == PdfWrite(r, "ppt_write")

\* CSV: csvToHtml is synchronous; the parser may throw
CsvBranch(r) ==
  \/ /\ req[r].pc = "csv"
     /\ MayResolve("csv")
     /\ WriteAndRespond(r, "html", csvToHtml(req[r].buffer),
                        HtmlResponse(csvToHtml(req[r].buffer)))
  \/ ConvertThrow(r, "csv")

\* the generic conversion without its try/catch
GenericConvert_uncaught(r) ==
  ConvertOk(r, "generic", "generic_write") \/ ConvertThrow(r, "generic")

\* Fallback: a rejection of the conversion is caught and the download page
\* is sent
GenericConvert(r) ==
  \/ ConvertOk(r, "generic", "generic_write")
  \/ /\ req[r].pc = "generic"
     /\ MayReject("generic")
     /\ Respond(r, [req[r] EXCEPT !.converts = @ + 1, !.failed = @ \cup {"generic"}],
                DownloadResponse(req[r].key, req[r].src.chars, req[r].det.ext))
     /\ UNCHANGED <<others, now, ticks, files>>

GenericWrite(r) == PdfWrite(r, "generic_write")

(* ----------------------- file writes in two steps ---------------------- *)
\* fs.writeFile opens the file with truncation and then writes the data: in
\* between the file exists, has the time of the truncation and does not hold
\* its content yet
PartialContent == [fmt |-> "partial", of |-> NoPayload]

\* first step of a write at position place: the file is created or truncated
WriteBegin(r, place, kind, end) ==
  /\ req[r].pc = place
  /\ files' = writeFile(files, req[r].key, kind, PartialContent, now)
  /\ req' = [req EXCEPT ![r].pc = end, ![r].wrote = @ \cup {kind}]
  /\ UNCHANGED <<others, now, ticks, last>>

WriteRawBegin(r) == WriteBegin(r, "write_raw", "raw", "write_raw_end")

\* second step: the content is complete and the handler goes on
WriteRawEnd(r) ==
  /\ req[r].pc = "write_raw_end"
  /\ files' = writeFile(files, req[r].key, "raw", Bytes(req[r].buffer), now)
  /\ req' = [req EXCEPT ![r].pc = "detect"]
  /\ UNCHANGED <<others, now, ticks, last>>

XlsWriteBegin(r) == WriteBegin(r, "xls_write", "html", "xls_write_end")

XlsWriteEnd(r) ==
  /\ req[r].pc = "xls_write_end"
  /\ WriteAndRespond(r, "html", excelToLuckysheet(req[r].buffer),
                     HtmlResponse(excelToLuckysheet(req[r].buffer)))

XlsFallbackWriteBegin(r) ==
  WriteBegin(r, "xls_fallback_write", "pdf", "xls_fallback_write_end")

XlsFallbackWriteEnd(r) == PdfWrite(r, "xls_fallback_write_end")

(* ------------------- GET /pdf/:key, GET /download/:key ----------------- *)
\* req.params.key is any string: the key of a src, or one no src hashes to
UnknownKey == <<"0">>
RouteKeys == Keys \cup {UnknownKey}

\* the file at path.join(CACHE_DIR, `${key}.${kind}`)
FileAt(key, kind) == IF key \in Keys THEN files[key][kind] ELSE NoFile

RouteRespond(status, body, mimeType, ext) ==
  route' = [route EXCEPT !.pc = "done",
                         !.resp = [status |-> status, body |-> body,
                                   mime |-> mimeType, ext |-> ext]]

\* a /pdf/:key or /download/:key request arrives; await fs.pathExists(...)
RouteStart(path, kind, key) ==
  /\ route.pc \in {"idle", "done"}
  /\ IF FileAt(key, kind).exists
       THEN route' = [pc |-> "read", path |-> path, key |-> key, resp |-> NoRouteResponse]
       ELSE route' = [pc |-> "done", path |-> path, key |-> key,
                      resp |-> [NoRouteResponse EXCEPT !.status = 404]]
  /\ UNCHANGED <<now, ticks, files, req, last, engine, render>>

\* /pdf/:key serving fresh artifacts only
PdfRouteStart_fresh(key) ==
  /\ route.pc \in {"idle", "done"}
  /\ IF Fresh(FileAt(key, "pdf"), now)
       THEN route' = [pc |-> "read", path |-> "pdf", key |-> key, resp |-> NoRouteResponse]
       ELSE route' = [pc |-> "done", path |-> "pdf", key |-> key,
                      resp |-> [NoRouteResponse EXCEPT !.status = 404]]
  /\ UNCHANGED <<now, ticks, files, req, last, engine, render>>

PdfRouteStart(key) == RouteStart("pdf", "pdf", key)

\* fs.createReadStream(cachedPdf).pipe(res)
PdfRouteRead ==
  /\ route.pc = "read"
  /\ route.path = "pdf"
  /\ RouteRespond(200, FileAt(route.key, "pdf").content, MimePdf, <<>>)
  /\ UNCHANGED <<now, ticks, files, req, last, engine, render>>

DownloadRouteStart(key) == RouteStart("download", "raw", key)

\* fs.readFile(cachedRaw), detect(buffer, ""), res.send(buffer)
DownloadRouteRead ==
  /\ route.pc = "read"
  /\ route.path = "download"
  /\ LET content == FileAt(route.key, "raw").content
         detection == detect(content.of, <<>>)
     IN RouteRespond(200, content,
                     IF detection.mime # <<>> THEN detection.mime ELSE MimeOctet,
                     detection.ext)
  /\ UNCHANGED <<now, ticks, files, req, last, engine, render>>

(* ------------------- html built from untrusted text -------------------- *)
\* untrusted text: a cell of the document, the name of the workbook, the
\* file name and extension taken from the src URL
TextChars == {"a", "<", ">", "&", "\"", "'"}
Texts == UNION {[1..n -> TextChars] : n \in 0..MaxLen}

\* the replacement function of escapeHtml
Entity(c) ==
  CASE c = "&" -> <<"&", "a", "m", "p", ";">>
    [] c = "<" -> <<"&", "l", "t", ";">>
    [] c = ">" -> <<"&", "g", "t", ";">>
    [] c = "\"" -> <<"&", "q", "u", "o", "t", ";">>
    [] c = "'" -> <<"&", "#", "3", "9", ";">>
    [] OTHER -> <<c>>

RECURSIVE escapeHtml(_)
escapeHtml(s) == IF s = <<>> THEN <<>> ELSE Entity(Head(s)) \o escapeHtml(Tail(s))

\* JSON.stringify of a string: quoted, with " and \ escaped by a backslash;
\* <, >, & and ' are left as they are
RECURSIVE JsonChars(_)
JsonChars(s) ==
  IF s = <<>> THEN <<>>
  ELSE (IF Head(s) \in {"\"", "\\"} THEN <<"\\", Head(s)>> ELSE <<Head(s)>>)
         \o JsonChars(Tail(s))

JSONstringify(s) == <<"\"">> \o JsonChars(s) \o <<"\"">>

\* the characters of a page, each with its origin: the template of the page,
\* or text of the document / URL (escaped or not)
FromPage(chars) == [i \in 1..Len(chars) |-> [c |-> chars[i], from |-> "page"]]
FromData(chars) == [i \in 1..Len(chars) |-> [c |-> chars[i], from |-> "data"]]

\* `<td>${escapeHtml(String(c))}</td>`
csvCellHtml(c) ==
  FromPage(<<"<", "t", "d", ">">>) \o FromData(escapeHtml(c))
    \o FromPage(<<"<", "/", "t", "d", ">">>)

\* data: ${JSON.stringify(exportJson.sheets)}, title: '${escapeHtml(name)}'
\* inside the <script> element of the Luckysheet page; the sheets hold one
\* cell
luckysheetScript(cell, name) ==
  FromPage(<<"<", "s", "c", "r", "i", "p", "t", ">", "d", "a", "t", "a", ":", "[">>)
    \o FromData(JSONstringify(cell))
    \o FromPage(<<"]", ",", "t", "i", "t", "l", "e", ":", "'">>)
    \o FromData(escapeHtml(IF name # <<>> THEN name
                           ELSE <<"E", "x", "c", "e", "l">>))
    \o FromPage(<<"'", "<", "/", "s", "c", "r", "i", "p", "t", ">">>)

\* <div class="file-name">${escapeHtml(filename)}</div>
\* <div class="file-type">File type: ${escapeHtml(ext || "Unknown")}</div>
unsupportedFileHtml(filename, ext) ==
  FromPage(<<"<", "d", "i", "v", ">">>) \o FromData(escapeHtml(filename))
    \o FromPage(<<"<", "/", "d", "i", "v", ">", "<", "d", "i", "v", ">">>)
    \o FromData(escapeHtml(IF ext # <<>> THEN ext ELSE <<"U", "n", "k", "n", "o", "w", "n">>))
    \o FromPage(<<"<", "/", "d", "i", "v", ">">>)

\* one page is built in a run
Render(by, out) ==
  /\ render = NoRender
  /\ render' = [by |-> by, out |-> out]
  /\ UNCHANGED <<now, ticks, files, req, last, engine, route>>

RenderCsv(c) == Render("csvToHtml", csvCellHtml(c))
RenderSheet(cell, name) == Render("excelToLuckysheet", luckysheetScript(cell, name))
RenderUnsupported(filename, ext) ==
  Render("createUnsupportedFileHtml", unsupportedFileHtml(filename, ext))

(* --------------------------- specifications ---------------------------- *)
Step(r) ==
  \/ CheckHtml(r)
  \/ ReadHtml(r)
  \/ CheckPdf(r)
  \/ \E p \in Payloads : FetchOk(r, p)
  \/ \E p \in Payloads, network \in BOOLEAN : FetchFail(r, p, network)
  \/ WriteRaw(r)
  \/ Detect(r)
  \/ PdfBranch(r)
  \/ WordConvert(r)
  \/ WordWrite(r)
  \/ XlsConvert(r)
  \/ XlsWrite(r)
  \/ XlsFallbackConvert(r)
  \/ XlsFallbackWrite(r)
  \/ PptConvert(r)
  \/ PptWrite(r)
  \/ CsvBranch(r)
  \/ GenericConvert(r)
  \/ GenericWrite(r)

\* one request at a time, each served to its end before the next arrives
SeqReqs == {1}

Next ==
  \/ Tick
  \/ \E r \in SeqReqs, s \in SrcInputs : Start(r, s)
  \/ \E r \in SeqReqs : Step(r)

Spec == Init /\ [][Next]_vars

\* concurrent requests for one spreadsheet URL whose upstream answers every
\* fetch: the handlers interleave at every await
SheetSrcs == {SrcCsvUpper}
SheetPayloads == {p \in Payloads : p.sig = "xlsx"}

StepSheet(r) ==
  \/ CheckHtml(r)
  \/ ReadHtml(r)
  \/ CheckPdf(r)
  \/ \E p \in SheetPayloads : FetchOk(r, p)
  \/ WriteRaw(r)
  \/ Detect(r)
  \/ XlsConvert(r)
  \/ XlsWrite(r)
  \/ XlsFallbackConvert(r)
  \/ XlsFallbackWrite(r)

NextConc ==
  \/ Tick
  \/ \E r \in Reqs, s \in SheetSrcs : Start(r, s)
  \/ \E r \in Reqs : StepSheet(r)

SpecConc == Init /\ [][NextConc]_vars

\* concurrent requests for one spreadsheet URL that all fetch the same bytes,
\* with converters whose outcome is the same at every invocation
FixedEngines == {[fixed |-> TRUE, ok |-> S] : S \in SUBSET {"xls", "xls_fallback"}}

InitFixed ==
  /\ Start0
  /\ engine \in FixedEngines

NextFixed ==
  \/ Tick
  \/ \E r \in Reqs, s \in SheetSrcs : Start(r, s)
  \/ \E r \in Reqs :
       \/ CheckHtml(r)
       \/ ReadHtml(r)
       \/ CheckPdf(r)
       \/ \E p \in SheetPayloads : FetchOk(r, p)
       \/ WriteRaw(r)
       \/ Detect(r)
       \/ XlsConvert(r)
       \/ XlsWrite(r)
       \/ XlsFallbackConvert(r)
       \/ XlsFallbackWrite(r)

SpecFixed == InitFixed /\ [][NextFixed]_vars

\* concurrent requests for one URL whose upstream content changes between
\* the fetches: a workbook, or bytes without signature (CSV by the URL)
RacePayloads == {p \in Payloads : p.sig \in {"xlsx", "none"}}

NextRace ==
  \/ Tick
  \/ \E r \in Reqs, s \in SheetSrcs : Start(r, s)
  \/ \E r \in Reqs :
       \/ CheckHtml(r)
       \/ ReadHtml(r)
       \/ CheckPdf(r)
       \/ \E p \in RacePayloads : FetchOk(r, p)
       \/ WriteRaw(r)
       \/ Detect(r)
       \/ XlsConvert(r)
       \/ XlsWrite(r)
       \/ XlsFallbackConvert(r)
       \/ XlsFallbackWrite(r)
       \/ CsvBranch(r)

SpecRace == Init /\ [][NextRace]_vars

\* concurrent requests for one spreadsheet URL and /pdf/:key requests, with
\* every file write in two steps
NextTorn ==
  \/ Tick
  \/ \E r \in Reqs, s \in SheetSrcs : Start(r, s)
  \/ \E r \in Reqs :
       \/ CheckHtml(r)
       \/ ReadHtml(r)
       \/ CheckPdf(r)
       \/ \E p \in SheetPayloads : FetchOk(r, p)
       \/ WriteRawBegin(r)
       \/ WriteRawEnd(r)
       \/ Detect(r)
       \/ XlsConvert(r)
       \/ XlsWriteBegin(r)
       \/ XlsWriteEnd(r)
       \/ XlsFallbackConvert(r)
       \/ XlsFallbackWriteBegin(r)
       \/ XlsFallbackWriteEnd(r)
  \/ \E key \in Keys : PdfRouteStart(key)
  \/ PdfRouteRead

SpecTorn == Init /\ [][NextTorn]_vars

\* the page builders applied to every untrusted text
NextRender ==
  \/ \E c \in Texts : RenderCsv(c)
  \/ \E cell \in Texts, name \in Texts : RenderSheet(cell, name)
  \/ \E filename \in Texts, ext \in Texts : RenderUnsupported(filename, ext)

SpecRender == Init /\ [][NextRender]_vars

\* the dispatch on every pairing of extension and MIME type: one request at a
\* time for one URL
NextDispatch ==
  \/ Tick
  \/ \E r \in SeqReqs, s \in SheetSrcs : Start(r, s)
  \/ \E r \in SeqReqs :
       \/ CheckHtml(r)
       \/ ReadHtml(r)
       \/ CheckPdf(r)
       \/ \E p \in SheetPayloads : FetchOk(r, p)
       \/ WriteRaw(r)
       \/ \E ext \in DetExts, mimeType \in DetMimes : DetectAny(r, ext, mimeType)
       \/ PdfBranch(r)
       \/ WordConvert(r)
       \/ WordWrite(r)
       \/ XlsConvert(r)
       \/ XlsWrite(r)
       \/ XlsFallbackConvert(r)
       \/ XlsFallbackWrite(r)
       \/ PptConvert(r)
       \/ PptWrite(r)
       \/ CsvBranch(r)
       \/ GenericConvert(r)
       \/ GenericWrite(r)

SpecDispatch == Init /\ [][NextDispatch]_vars

\* the /pdf and /download routes next to /preview requests for one
\* spreadsheet URL, served one at a time
NextRoutes ==
  \/ Tick
  \/ \E r \in SeqReqs, s \in SheetSrcs : Start(r, s)
  \/ \E r \in SeqReqs : StepSheet(r)
  \/ \E key \in RouteKeys : PdfRouteStart(key)
  \/ PdfRouteRead
  \/ \E key \in RouteKeys : DownloadRouteStart(key)
  \/ DownloadRouteRead

SpecRoutes == Init /\ [][NextRoutes]_vars

(* ------------------------------ properties ----------------------------- *)
\* request r completes in this step
Completes(r) == req[r].pc # "done" /\ req'[r].pc = "done"

\* the age of the artifact is below the cache duration
YoungerThanCacheTime(f, t) == f.exists /\ t - f.mtime < 86400 * 1000

\* C1 as stated: once a /preview call for a src has completed with a page
\* (whatever the page: viewer, converted html or the download fallback), a
\* later call for the same src within the cache duration returns the same
\* output and invokes neither the Fetcher nor a Converter.  "Within the cache
\* duration" is taken in its narrowest sense: both calls complete less than
\* the cache duration after the server started.
C1_Original ==
  [][\A r \in Reqs :
       (/\ Completes(r)
        /\ last.valid
        /\ last.key = req'[r].key
        /\ last.resp.status = 200
        /\ now' < 86400 * 1000)
       => /\ req'[r].resp = last.resp
          /\ req'[r].fetches = 0
          /\ req'[r].converts = 0]_vars

\* C1 amended: with requests served one at a time, a /preview call for a src
\* that completes after a call that wrote the pdf or html artifact of the key,
\* while that artifact is younger than the cache duration, returns the same
\* output as that call, invokes neither the Fetcher nor a Converter and
\* leaves the cache as it is.
C1_Amended ==
  [][\A r \in Reqs :
       (/\ Completes(r)
        /\ last.valid
        /\ last.key = req'[r].key
        /\ last.gen # {}
        /\ \A kind \in last.gen :
             YoungerThanCacheTime(files[req'[r].key][kind], now'))
       => /\ req'[r].resp = last.resp
          /\ req'[r].fetches = 0
          /\ req'[r].converts = 0
          /\ files' = files]_vars

\* a call served from the cache some time after the call that generated the
\* artifact
C1_Witness ==
  \E r \in Reqs :
    /\ req[r].pc = "done"
    /\ req[r].hit # "-"
    /\ last.valid
    /\ last.key = req[r].key
    /\ last.gen # {}
    /\ req[r].resp = last.resp
    /\ \E kind \in last.gen : now > files[req[r].key][kind].mtime

\* C2: a /preview request whose src is missing, empty or does not start with
\* http:// or https:// is over in one step with status 400: it reads and
\* writes no cache file, fetches nothing, converts nothing.
C2_InvalidSrcRejected ==
  [][\A r \in Reqs :
       (req'[r] # req[r] /\ req'[r].src \in InvalidSrcs)
       => /\ req[r].pc \in {"idle", "done"}
          /\ req'[r].pc = "done"
          /\ req'[r].resp.status = 400
          /\ req'[r].fetches = 0
          /\ req'[r].converts = 0
          /\ req'[r].wrote = {}
          /\ req'[r].hit = "-"
          /\ req'[r].det = NoDetection
          /\ files' = files]_vars

\* a src with http:// inside but not at its start was rejected while the
\* cache holds an artifact
C2_Witness ==
  \E r \in Reqs :
    /\ req[r].pc = "done"
    /\ req[r].src = SrcNotPrefix
    /\ req[r].resp.status = 400
    /\ \E k \in Keys : files[k]["raw"].exists

\* the request has fetched, detected, converted and written nothing
NoWork(q) == q.fetches = 0 /\ q.converts = 0 /\ q.wrote = {} /\ q.det = NoDetection

HtmlPage(content) ==
  [status |-> 200, page |-> "html", ref |-> NoKey, content |-> content,
   name |-> <<>>, ext |-> <<>>]

ViewerPage(key) ==
  [status |-> 200, page |-> "viewer /pdf/", ref |-> key, content |-> NoContent,
   name |-> <<>>, ext |-> <<>>]

\* C3: the cache lookup of /preview is ordered.  A fresh html artifact is
\* returned verbatim, whatever the pdf artifact is; otherwise a fresh pdf
\* artifact gives the viewer page for /pdf/<key>.  Neither case fetches,
\* detects, converts or writes.
C3_CacheLookupOrder ==
  [][\A r \in Reqs :
       LET q == req[r]
           q1 == req'[r]
       IN /\ (q.pc = "chk_html" /\ q1 # q)
               => q1.pc = IF YoungerThanCacheTime(files[q.key]["html"], now)
                            THEN "read_html" ELSE "chk_pdf"
          /\ (q.pc = "read_html" /\ q1 # q)
               => /\ q1.pc = "done"
                  /\ q1.resp = HtmlPage(files[q.key]["html"].content)
                  /\ NoWork(q1)
                  /\ files' = files
          /\ (q.pc = "chk_pdf" /\ q1 # q
                /\ YoungerThanCacheTime(files[q.key]["pdf"], now))
               => /\ q1.pc = "done"
                  /\ q1.resp = ViewerPage(<<"sha1">> \o q.src.chars)
                  /\ NoWork(q1)
                  /\ files' = files]_vars

\* one request was served the html artifact while the pdf artifact of the
\* key was fresh too, another one the viewer page from the fresh pdf artifact
C3_Witness ==
  /\ \E r \in Reqs :
       /\ req[r].pc = "done"
       /\ req[r].hit = "html"
       /\ YoungerThanCacheTime(files[req[r].key]["html"], now)
       /\ YoungerThanCacheTime(files[req[r].key]["pdf"], now)
  /\ \E r \in Reqs : req[r].pc = "done" /\ req[r].hit = "pdf"

\* the detected type is in none of the categories PDF, Word, spreadsheet,
\* presentation, CSV
Uncategorised(d) ==
  /\ d.ext \notin {<<".", "p", "d", "f">>, <<".", "d", "o", "c">>,
                   <<".", "d", "o", "c", "x">>, <<".", "x", "l", "s", "x">>,
                   <<".", "x", "l", "s">>, <<".", "p", "p", "t", "x">>,
                   <<".", "p", "p", "t">>, <<".", "c", "s", "v">>}
  /\ d.mime \notin {MimePdf, MimeMsword, MimeDocx, MimeCsv}
  /\ ~includes(d.mime, "spreadsheet")
  /\ ~includes(d.mime, "presentation")

\* C4: when the detected type is in no category and the generic conversion
\* fails, the response is 200 with the download page for /download/<key>, the
\* raw artifact of the key exists, and the request wrote no pdf and no html
\* artifact.
C4_DownloadFallback ==
  \A r \in Reqs :
    (/\ req[r].pc = "done"
     /\ req[r].det # NoDetection
     /\ Uncategorised(req[r].det)
     /\ "generic" \in req[r].failed)
    => /\ req[r].resp.status = 200
       /\ req[r].resp.page = "unsupported /download/"
       /\ req[r].resp.ref = <<"sha1">> \o req[r].src.chars
       /\ files[<<"sha1">> \o req[r].src.chars]["raw"].exists
       /\ req[r].wrote \cap {"pdf", "html"} = {}

\* an .exe payload whose conversion failed got the download page
C4_Witness ==
  \E r \in Reqs :
    /\ req[r].pc = "done"
    /\ req[r].det.ext = <<".", "e", "x", "e">>
    /\ "generic" \in req[r].failed
    /\ req[r].resp.page = "unsupported /download/"

SheetDetected(d) ==
  \/ d.ext \in {<<".", "x", "l", "s", "x">>, <<".", "x", "l", "s">>}
  \/ includes(d.mime, "spreadsheet")

\* C5: for a spreadsheet input, a failure of the spreadsheet-to-model
\* conversion gives no 500 by itself: the document-conversion engine runs,
\* and when it returns a result that result is written as the pdf artifact of
\* the key (no html artifact is written) and the viewer page is the response.
C5_SheetFallsBackToPdf ==
  \A r \in Reqs :
    /\ (req[r].det # NoDetection /\ SheetDetected(req[r].det)) => req[r].branch = "xls"
    /\ (/\ req[r].pc = "done"
        /\ SheetDetected(req[r].det)
        /\ "xls" \in req[r].failed
        /\ "xls_fallback" \notin req[r].failed)
       => /\ req[r].resp = ViewerPage(<<"sha1">> \o req[r].src.chars)
          /\ req[r].wrote \cap {"pdf", "html"} = {"pdf"}
          /\ files[req[r].key]["pdf"].exists
          /\ files[req[r].key]["pdf"].content = [fmt |-> "pdf", of |-> req[r].buffer]

\* a spreadsheet whose model conversion failed was answered with the viewer
C5_Witness ==
  \E r \in Reqs :
    /\ req[r].pc = "done"
    /\ req[r].det.ext = <<".", "x", "l", "s", "x">>
    /\ "xls" \in req[r].failed
    /\ req[r].resp.status = 200
    /\ "pdf" \in req[r].wrote

\* C6 as stated: a detected type that is not PDF and whose extension is .doc
\* or .docx, or whose MIME type is application/msword or the
\* wordprocessingml.document type, is handled by the Word branch: the
\* conversion engine runs, its output becomes the pdf artifact, and its
\* failure gives a 500.
C6_WordBranchByMime ==
  \A r \in Reqs :
    (/\ req[r].det # NoDetection
     /\ req[r].det.mime # MimePdf
     /\ req[r].det.ext # <<".", "p", "d", "f">>
     /\ \/ req[r].det.ext \in {<<".", "d", "o", "c">>, <<".", "d", "o", "c", "x">>}
        \/ req[r].det.mime \in {MimeMsword, MimeDocx})
    => /\ req[r].branch = "word"
       /\ (req[r].pc = "done" /\ req[r].failed # {}) => req[r].resp.status = 500
       /\ (req[r].pc = "done" /\ req[r].failed = {})
            => files[req[r].key]["pdf"].content = [fmt |-> "pdf", of |-> req[r].buffer]

C8_FetchFailureWritesNothing ==
  [][\A r \in Reqs :
       /\ (Completes(r) /\ req'[r].failed \cap {"fetch_size", "fetch_network"} # {})
            => /\ req'[r].resp.status = 500
               /\ req'[r].wrote = {}
               /\ req'[r].buffer = NoPayload
               /\ files' = files
       /\ req'[r].buffer.size <= 200 * 1024 * 1024
       /\ (req[r].pc = "fetch" /\ req'[r] # req[r] /\ req'[r].pc = "done")
            => req'[r].resp.status = 500]_vars

\* an oversized payload was refused while the key had artifacts of an earlier
\* request
C8_Witness ==
  \E r \in Reqs :
    /\ req[r].pc = "done"
    /\ "fetch_size" \in req[r].failed
    /\ req[r].resp.status = 500
    /\ files[req[r].key]["raw"].exists
    /\ files[req[r].key]["html"].exists

\* C9: once the fetch of a request has succeeded, the fetched bytes are the
\* raw artifact of its key before detection and conversion start, and they
\* stay there to the end of the request, whatever its outcome.
C9_RawWrittenFirst ==
  \A r \in Reqs :
    /\ req[r].pc \in {"fetch", "write_raw"}
         => req[r].det = NoDetection /\ req[r].converts = 0
    /\ (req[r].buffer # NoPayload /\ req[r].pc # "write_raw")
         => /\ "raw" \in req[r].wrote
            /\ files[req[r].key]["raw"].exists
            /\ files[req[r].key]["raw"].content = [fmt |-> "raw", of |-> req[r].buffer]

\* a request ended with a 500 after its fetch: the raw artifact is in place
C9_Witness ==
  \E r \in Reqs :
    /\ req[r].pc = "done"
    /\ req[r].resp.status = 500
    /\ req[r].buffer # NoPayload
    /\ files[req[r].key]["raw"].content = [fmt |-> "raw", of |-> req[r].buffer]

C11_RoutesServeWhatExists ==
  [][(route.pc # "done" /\ route'.pc = "done")
       => LET kind == IF route'.path = "pdf" THEN "pdf" ELSE "raw"
              on_disk == /\ route'.key \in {<<"sha1">> \o src.chars : src \in ValidSrcs}
                         /\ files[route'.key][kind].exists
          IN /\ route'.resp.status = IF on_disk THEN 200 ELSE 404
             /\ on_disk => route'.resp.body = files[route'.key][kind].content
             /\ ~on_disk => route'.resp.body = NoContent
             /\ files' = files]_vars

\* a stale pdf artifact was served by /pdf/:key while a /preview request
\* for the key was in flight and the key had no fresh artifact
C11_Witness ==
  /\ route.pc = "done"
  /\ route.path = "pdf"
  /\ route.resp.status = 200
  /\ route.key \in Keys
  /\ route.resp.body = files[route.key]["pdf"].content
  /\ now - files[route.key]["pdf"].mtime >= 86400 * 1000
  /\ ~files[route.key]["html"].exists
  /\ \E r \in Reqs : InFlight(r) /\ req[r].key = route.key

\* C12: the freshness check of an artifact is true exactly when the file
\* exists and now minus its modification time is strictly below the cache
\* duration: at an age equal to the duration it is false, and for an absent
\* file it is false (no error).  The two lookups of /preview decide by it.
C12_FreshnessStrict ==
  [][/\ \A k \in Keys, kind \in Kinds :
          LET f == files[k][kind] IN
            /\ isCacheValid(f, now) = (f.exists /\ now - f.mtime < 86400 * 1000)
            /\ (f.exists /\ now - f.mtime = 86400 * 1000) => ~isCacheValid(f, now)
            /\ ~f.exists => ~isCacheValid(f, now)
     /\ \A r \in Reqs :
          LET q == req[r]
              q1 == req'[r]
          IN /\ (q.pc = "chk_html" /\ q1 # q)
                  => ((q1.pc = "read_html")
                        <=> (/\ files[q.key]["html"].exists
                             /\ now - files[q.key]["html"].mtime < 86400 * 1000))
             /\ (q.pc = "chk_pdf" /\ q1 # q)
                  => ((q1.pc = "done" /\ q1.hit = "pdf")
                        <=> (/\ files[q.key]["pdf"].exists
                             /\ now - files[q.key]["pdf"].mtime < 86400 * 1000))]_vars

\* a lookup found the html artifact at an age equal to the cache duration
\* and went on to the fetch
C12_Witness ==
  \E r \in Reqs :
    /\ req[r].pc = "fetch"
    /\ files[req[r].key]["html"].exists
    /\ now - files[req[r].key]["html"].mtime = 86400 * 1000
    /\ ~files[req[r].key]["pdf"].exists

\* the positions of the handler inside each branch
BranchPlaces ==
  [b \in {"pdf", "word", "xls", "ppt", "csv", "generic"} |->
     CASE b = "pdf" -> {"pdf"}
       [] b = "word" -> {"word", "word_write"}
       [] b = "xls" -> {"xls", "xls_write", "xls_fallback", "xls_fallback_write"}
       [] b = "ppt" -> {"ppt", "ppt_write"}
       [] b = "csv" -> {"csv"}
       [] b = "generic" -> {"generic", "generic_write"}]

\* the first category, in the order PDF, Word, spreadsheet, presentation,
\* CSV, anything else, whose test holds on the lower-cased extension e and
\* the MIME type m
FirstCategory(e, m) ==
  IF m = MimePdf \/ e = <<".", "p", "d", "f">> THEN "pdf"
  ELSE IF e \in {<<".", "d", "o", "c">>, <<".", "d", "o", "c", "x">>} \/ m = MimeMsword
    THEN "word"
  ELSE IF \/ e \in {<<".", "x", "l", "s", "x">>, <<".", "x", "l", "s">>}
          \/ \E i \in 1..Len(m) : m[i] = "spreadsheet"
    THEN "xls"
  ELSE IF \/ e \in {<<".", "p", "p", "t", "x">>, <<".", "p", "p", "t">>}
          \/ \E i \in 1..Len(m) : m[i] = "presentation"
    THEN "ppt"
  ELSE IF e = <<".", "c", "s", "v">> \/ m = MimeCsv THEN "csv"
  ELSE "generic"

\* C13: the dispatch takes the categories in the order PDF, Word,
\* spreadsheet, presentation, CSV, anything else, on the lower-cased
\* extension and the MIME type, and a request runs the branch of the first
\* category whose test holds and no other: every position it takes after the
\* detection, every conversion it fails in, lies in that branch.
C13_FirstMatchWins ==
  \A r \in Reqs :
    req[r].branch # "-" =>
      LET b == FirstCategory(req[r].det.ext, req[r].det.mime) IN
        /\ req[r].branch = b
        /\ req[r].det.ext = [i \in 1..Len(req[r].det.ext) |-> LowerChar(req[r].det.ext[i])]
        /\ req[r].pc \in BranchPlaces[b] \cup {"done"}
        /\ req[r].failed \subseteq BranchPlaces[b]
        /\ (req[r].pc = "done" /\ b = "pdf")
             => /\ req[r].converts = 0
                /\ req[r].wrote = {"raw", "pdf"}

\* a type with the extension .pdf and a spreadsheet MIME type was handled by
\* the PDF branch: the fetched bytes are the pdf artifact
C13_Witness ==
  \E r \in Reqs :
    /\ req[r].pc = "done"
    /\ req[r].det.ext = <<".", "p", "d", "f">>
    /\ \E i \in 1..Len(req[r].det.mime) : req[r].det.mime[i] = "spreadsheet"
    /\ req[r].branch = "pdf"
    /\ files[req[r].key]["pdf"].content = [fmt |-> "raw", of |-> req[r].buffer]

\* the latest call for the key of r wrote the raw artifact and neither the
\* pdf nor the html artifact
AfterRawOnly(r) ==
  /\ Completes(r)
  /\ last.valid
  /\ last.key = req'[r].key
  /\ last.raw
  /\ last.gen = {}

\* C14 as stated: after a /preview call that wrote the raw artifact and
\* failed before writing the pdf or html artifact, the next call for the same
\* src converts again without going through the Fetcher.
C14_Original ==
  [][\A r \in Reqs : AfterRawOnly(r) => req'[r].fetches = 0]_vars

\* C14 amended: after such a call, the next /preview call for the same src
\* goes through the Fetcher again.  When the fetch succeeds the newly fetched
\* bytes replace the raw artifact and every conversion of the call is one of
\* those bytes; when the fetch fails the call ends with a 500, converts
\* nothing and leaves the cache as it is.
C14_Amended ==
  [][\A r \in Reqs :
       AfterRawOnly(r)
       => LET q == req'[r] IN
            /\ q.fetches = 1
            /\ q.hit = "-"
            /\ (q.buffer = NoPayload)
                 => /\ q.resp.status = 500
                    /\ q.converts = 0
                    /\ q.wrote = {}
                    /\ files' = files
            /\ (q.buffer # NoPayload)
                 => /\ "raw" \in q.wrote
                    /\ files'[q.key]["raw"].content = [fmt |-> "raw", of |-> q.buffer]
                    /\ \A kind \in q.wrote : files'[q.key][kind].content.of = q.buffer]_vars

\* the call after a raw-only call has fetched bytes that differ from the raw
\* artifact on disk
C14_Witness ==
  \E r \in Reqs :
    /\ req[r].pc = "write_raw"
    /\ req[r].fetches = 1
    /\ last.valid
    /\ last.key = req[r].key
    /\ last.raw
    /\ last.gen = {}
    /\ files[req[r].key]["raw"].exists
    /\ files[req[r].key]["raw"].content.of # req[r].buffer

\* request r completes in this step and has written the pdf or the html
\* artifact of its key
Regenerates(r) == Completes(r) /\ req'[r].wrote \cap {"pdf", "html"} # {}

\* C15 as stated: after a /preview request that regenerated successfully, no
\* stale pdf or html artifact of its key is left on disk, also when the
\* request wrote the other kind than the stale one.
C15_Original ==
  [][\A r \in Reqs :
       Regenerates(r)
       => \A kind \in {"pdf", "html"} :
            files'[req'[r].key][kind].exists
              => now' - files'[req'[r].key][kind].mtime < 86400 * 1000]_vars

\* C15 amended: a /preview request that regenerates successfully overwrites
\* the artifact of the kind it writes, which then has the time of the write
\* and the conversion of the bytes just fetched; the artifact of the other
\* kind is left on disk as it was, stale or not.  No step removes a cache file.
C15_Amended ==
  [][/\ \A r \in Reqs :
          Regenerates(r)
          => \A kind \in {"pdf", "html"} :
               IF kind \in req'[r].wrote
                 THEN /\ files'[req'[r].key][kind].exists
                      /\ files'[req'[r].key][kind].mtime = now'
                      /\ files'[req'[r].key][kind].content.of = req'[r].buffer
                 ELSE files'[req'[r].key][kind] = files[req'[r].key][kind]
     /\ \A k \in Keys, kind \in Kinds : files[k][kind].exists => files'[k][kind].exists]_vars

\* a request has just written the pdf artifact of a key whose html artifact
\* is stale: the stale html artifact is still on disk
C15_Witness ==
  \E r \in Reqs :
    /\ req[r].pc = "done"
    /\ "pdf" \in req[r].wrote
    /\ files[req[r].key]["pdf"].mtime = now
    /\ files[req[r].key]["html"].exists
    /\ now - files[req[r].key]["html"].mtime >= 86400 * 1000

\* the bytes behind the spreadsheet URL
SheetBytes == [sig |-> "xlsx", size |-> 1]

\* the response of a /preview request for the spreadsheet URL that runs alone
\* on an empty cache, by what the converters do
AloneResponse ==
  IF "xls" \in engine.ok
    THEN HtmlPage([fmt |-> "sheet", of |-> SheetBytes])
  ELSE IF "xls_fallback" \in engine.ok
    THEN ViewerPage(<<"sha1">> \o SrcCsvUpper.chars)
  ELSE [status |-> 500, page |-> "Server error: ", ref |-> NoKey,
        content |-> NoContent, name |-> <<>>, ext |-> <<>>]

\* the content of the artifact of a kind that such a request leaves
AloneContent(kind) ==
  CASE kind = "raw" -> [fmt |-> "raw", of |-> SheetBytes]
    [] kind = "html" -> IF "xls" \in engine.ok
                          THEN [fmt |-> "sheet", of |-> SheetBytes] ELSE NoContent
    [] kind = "pdf" -> IF "xls" \notin engine.ok /\ "xls_fallback" \in engine.ok
                         THEN [fmt |-> "pdf", of |-> SheetBytes] ELSE NoContent

C17_UntrustedTextEscaped ==
  \A i \in 1..Len(render.out) :
    render.out[i].from = "data" => render.out[i].c \notin {"<", ">"}

\* C18 as stated: whenever no /preview request for a key is in flight and
\* the pdf or html artifact of the key is fresh, that artifact is the
\* conversion of the bytes that the raw artifact of the key holds, for every
\* interleaving of concurrent requests, also when the upstream content
\* differs between their fetches.
C18_ArtifactMatchesRaw ==
  \A k \in Keys :
    (\A r \in Reqs : req[r].pc \in {"idle", "done"} \/ req[r].key # k)
    => \A kind \in {"pdf", "html"} :
         (files[k][kind].exists /\ now - files[k][kind].mtime < 86400 * 1000)
         => /\ files[k]["raw"].exists
            /\ files[k][kind].content.of = files[k]["raw"].content.of

\* C19 as stated: with every file write in two steps (the file is created
\* or truncated and gets a fresh modification time, then its content becomes
\* complete), no /preview cache hit and no /pdf/:key response returns the
\* content of an artifact whose write has started and not completed.
C19_NoPartialContentServed ==
  /\ \A r \in Reqs :
       (req[r].pc = "done" /\ req[r].hit = "html")
       => req[r].resp.content.fmt # "partial"
  /\ (route.pc = "done" /\ route.path = "pdf" /\ route.resp.status = 200)
     => route.resp.body.fmt # "partial"

====
